---------------------------- MODULE Spec2Model ----------------------------
(***************************************************************************)
(* Model of file-rename-plus: the two-phase rename executor                *)
(* (file_ops::validate_and_rename) and the rename strategies               *)
(* (rename::apply_find_replace, rename::apply_iteration_numbering,         *)
(* rename::detect_conflicts), the directory scan with its natural order    *)
(* (file_ops::scan_directory, natural_cmp) and the controller              *)
(* (app::FileRenamePlus::update).                                          *)
(*                                                                         *)
(* A file name is a string.  A path is the sequence of its components      *)
(* from the root, the way PathBuf compares paths.  The filesystem is a     *)
(* function from the paths of the existing files to the identity of the    *)
(* file stored there (the path it had when the operation started).         *)
(***************************************************************************)
EXTENDS Integers, Sequences, FiniteSets, TLC

VARIABLES
    fs,             \* filesystem: existing file path -> file identity
    fs0,            \* the filesystem when validate_and_rename was called
    previews,       \* the preview batch (argument of validate_and_rename / result of a strategy)
    pc,             \* position inside the running operation
    idx,            \* loop index of the phase-1 / phase-2 loop
    temp_renames,   \* Vec<(temp_path, final_path)> of validate_and_rename
    renamed_count,  \* renamed_count of validate_and_rename
    result,         \* the Result the operation returned
    rename_log,     \* every fs::rename call made, in order
    files,          \* &[FileEntry] given to a strategy / FileRenamePlus::files
    params,         \* the strategy's parameters / the controller's input fields
    ui,             \* FileRenamePlus: selected_index and pending_preview
    tasks,          \* the Tasks the controller started that have not reported
    handled         \* the number of messages update() has handled

vars == <<fs, fs0, previews, pc, idx, temp_renames, renamed_count, result,
          rename_log, files, params, ui, tasks, handled>>

-----------------------------------------------------------------------------
(* Bounds of the model *)

\* longest preview batch handed to validate_and_rename
MaxBatch == 3

\* longest file list handed to a strategy
MaxFiles == 3

\* std::process::id() of the running instance
Pid == 7

-----------------------------------------------------------------------------
(* Sequences and characters *)

Range(s) == { s[k] : k \in 1..Len(s) }

\* the k-th character of a string
Char(s, k) == SubSeq(s, k, k)

Digits == "0123456789"

\* u32 Display: the decimal digits of n, no leading zero
RECURSIVE Decimal(_)
Decimal(n) == IF n < 10 THEN Char(Digits, n + 1)
              ELSE Decimal(n \div 10) \o Char(Digits, (n % 10) + 1)

StartsWith(s, p) == Len(s) >= Len(p) /\ SubSeq(s, 1, Len(p)) = p

-----------------------------------------------------------------------------
(* Paths: std::path::Path as its sequence of components *)

\* the components of a relative path string: split at "/", empty and "."
\* components dropped (Path::components normalisation)
RECURSIVE SplitAt(_, _, _)
SplitAt(s, k, cur) ==
    LET flush == IF cur = "" \/ cur = "." THEN <<>> ELSE <<cur>>
    IN  IF k > Len(s) THEN flush
        ELSE IF Char(s, k) = "/" THEN flush \o SplitAt(s, k + 1, "")
        ELSE SplitAt(s, k + 1, cur \o Char(s, k))

Components(s) == SplitAt(s, 1, "")

\* Path::join: an absolute argument replaces the base
Join(base, s) == IF StartsWith(s, "/") THEN Components(s)
                 ELSE base \o Components(s)

\* Path::parent().unwrap_or(path): the root has no parent
ParentOr(path) == IF path = <<>> THEN path ELSE SubSeq(path, 1, Len(path) - 1)

\* Path::file_name() as a string
FileName(path) == IF path = <<>> THEN "" ELSE path[Len(path)]

-----------------------------------------------------------------------------
(* The filesystem *)

\* the directories of the model; they exist throughout
Dirs == { <<>>, <<"d">>, <<"e">>, <<"d", "s">> }

\* Path::exists
Exists(f, path) == path \in DOMAIN f \/ path \in Dirs

\* fs::rename can succeed: the source is a file and the destination's
\* directory exists and the destination is not a directory
CanRename(f, from, to) ==
    /\ from \in DOMAIN f
    /\ to # <<>> /\ ParentOr(to) \in Dirs
    /\ to \notin Dirs

\* fs::rename succeeding: the destination, when it exists, is replaced
RenameFile(f, from, to) ==
    IF from = to THEN f
    ELSE [ p \in (DOMAIN f \ {from}) \cup {to} |->
             IF p = to THEN f[from] ELSE f[p] ]

-----------------------------------------------------------------------------
(* validate_and_rename *)

\* line 130: format!(".rename_temp_{}_", std::process::id())
temp_prefix == ".rename_temp_" \o Decimal(Pid) \o "_"

\* lines 115-119 and 142: parent().unwrap_or(original_path).join(new_name)
TargetPath(p) == Join(ParentOr(p.original_path), p.new_name)

\* line 141: parent.join(format!("{}{}", temp_prefix, new_name))
TempPath(p) == Join(ParentOr(p.original_path), temp_prefix \o p.new_name)

\* lines 111-112
OriginalPaths(ps) == { ps[k].original_path : k \in 1..Len(ps) }

\* a phase-1 loop that skips nothing
IsNoOp_Never(p) == FALSE

\* line 134
IsNoOp(p) == p.original_name = p.new_name

\* a validation that does not look at the disk
CheckPreview_NoExistsCheck(ps, f, k, target_names) ==
    IF TargetPath(ps[k]) \in target_names THEN "DuplicateTarget" ELSE "ok"

\* a validation that does not compare the targets with each other
CheckPreview_NoDuplicateCheck(ps, f, k, target_names) ==
    LET target_path == TargetPath(ps[k])
    IN  IF Exists(f, target_path) /\ target_path \notin OriginalPaths(ps)
        THEN "TargetExists"
        ELSE "ok"

\* a validation that rejects a preview flagged as conflicting
CheckPreview_RejectFlagged(ps, f, k, target_names) ==
    LET target_path == TargetPath(ps[k])
    IN  IF ps[k].has_conflict THEN "Conflict"
        ELSE IF Exists(f, target_path) /\ target_path \notin OriginalPaths(ps)
        THEN "TargetExists"
        ELSE IF target_path \in target_names THEN "DuplicateTarget"
        ELSE "ok"

\* the check of one preview in the validation loop, lines 121-126
CheckPreview(ps, f, k, target_names) ==
    LET target_path == TargetPath(ps[k])
    IN  IF Exists(f, target_path) /\ target_path \notin OriginalPaths(ps)
        THEN "TargetExists"
        ELSE IF target_path \in target_names THEN "DuplicateTarget"
        ELSE "ok"

\* the validation loop, lines 114-128: the first error, or "ok"
RECURSIVE ValidateFrom(_, _, _, _)
ValidateFrom(ps, f, k, target_names) ==
    IF k > Len(ps) THEN "ok"
    ELSE LET r == CheckPreview(ps, f, k, target_names)
         IN  IF r # "ok" THEN r
             ELSE ValidateFrom(ps, f, k + 1,
                               target_names \cup {TargetPath(ps[k])})

Validate(ps, f) == ValidateFrom(ps, f, 1, {})

Ok(n) == [ok |-> TRUE, count |-> n, err |-> "none"]
Err(e) == [ok |-> FALSE, count |-> 0, err |-> e]
NoResult == [ok |-> FALSE, count |-> 0, err |-> "running"]

\* lines 106-108: an empty batch returns Ok(0)
ReturnEmpty ==
    /\ pc = "validate"
    /\ previews = <<>>
    /\ pc' = "done"
    /\ result' = Ok(0)
    /\ UNCHANGED <<fs, fs0, previews, idx, temp_renames, renamed_count,
                   rename_log, files, params, ui, tasks, handled>>

\* lines 110-128: validation fails, nothing is renamed
ValidateFail ==
    /\ pc = "validate"
    /\ previews # <<>>
    /\ Validate(previews, fs) # "ok"
    /\ pc' = "done"
    /\ result' = Err(Validate(previews, fs))
    /\ UNCHANGED <<fs, fs0, previews, idx, temp_renames, renamed_count,
                   rename_log, files, params, ui, tasks, handled>>

\* lines 110-131: validation passes, phase 1 starts
ValidateOk ==
    /\ pc = "validate"
    /\ previews # <<>>
    /\ Validate(previews, fs) = "ok"
    /\ pc' = "phase1"
    /\ idx' = 1
    /\ temp_renames' = <<>>
    /\ UNCHANGED <<fs, fs0, previews, renamed_count, result, rename_log,
                   files, params, ui, tasks, handled>>

\* lines 134-136: a no-op preview is skipped
Phase1Skip ==
    /\ pc = "phase1"
    /\ idx <= Len(previews)
    /\ IsNoOp(previews[idx])
    /\ idx' = idx + 1
    /\ UNCHANGED <<fs, fs0, previews, pc, temp_renames, renamed_count,
                   result, rename_log, files, params, ui, tasks, handled>>

LogEntry(ph, k, from, to, f) ==
    [phase |-> ph, preview |-> k, from |-> from, to |-> to,
     replaced |-> (to \in DOMAIN f /\ to # from)]

\* lines 137-146: the original is renamed to its temporary name
Phase1Rename ==
    /\ pc = "phase1"
    /\ idx <= Len(previews)
    /\ ~IsNoOp(previews[idx])
    /\ LET p == previews[idx]
           temp_path == TempPath(p)
           final_path == TargetPath(p)
       IN  /\ CanRename(fs, p.original_path, temp_path)
           /\ fs' = RenameFile(fs, p.original_path, temp_path)
           /\ temp_renames' = Append(temp_renames, <<temp_path, final_path>>)
           /\ rename_log' = Append(rename_log,
                  LogEntry(1, idx, p.original_path, temp_path, fs))
    /\ idx' = idx + 1
    /\ UNCHANGED <<fs0, previews, pc, renamed_count, result, files, params, ui, tasks, handled>>

\* lines 144-145: fs::rename fails (source gone, access denied, I/O error)
\* and `?` returns the error ("Failed to rename") at once
Phase1Fail ==
    /\ pc = "phase1"
    /\ idx <= Len(previews)
    /\ ~IsNoOp(previews[idx])
    /\ pc' = "done"
    /\ result' = Err("FailedToRename")
    /\ UNCHANGED <<fs, fs0, previews, idx, temp_renames, renamed_count,
                   rename_log, files, params, ui, tasks, handled>>

\* a phase 2 that starts while phase 1 still has previews to rename
Phase1Done_Early ==
    /\ pc = "phase1"
    /\ pc' = "phase2"
    /\ idx' = 1
    /\ renamed_count' = 0
    /\ UNCHANGED <<fs, fs0, previews, temp_renames, result, rename_log,
                   files, params, ui, tasks, handled>>

\* lines 147-149: the phase-1 loop is over, the phase-2 loop starts
Phase1Done ==
    /\ pc = "phase1"
    /\ idx > Len(previews)
    /\ pc' = "phase2"
    /\ idx' = 1
    /\ renamed_count' = 0
    /\ UNCHANGED <<fs, fs0, previews, temp_renames, result, rename_log,
                   files, params, ui, tasks, handled>>

\* lines 150-153: a temporary file is renamed to its final name
Phase2Rename ==
    /\ pc = "phase2"
    /\ idx <= Len(temp_renames)
    /\ LET temp_path == temp_renames[idx][1]
           final_path == temp_renames[idx][2]
       IN  /\ CanRename(fs, temp_path, final_path)
           /\ fs' = RenameFile(fs, temp_path, final_path)
           /\ rename_log' = Append(rename_log,
                  LogEntry(2, idx, temp_path, final_path, fs))
    /\ renamed_count' = renamed_count + 1
    /\ idx' = idx + 1
    /\ UNCHANGED <<fs0, previews, pc, temp_renames, result, files, params, ui, tasks, handled>>

\* lines 151-152: fs::rename fails and `?` returns the error ("Failed to
\* finalize") at once
Phase2Fail ==
    /\ pc = "phase2"
    /\ idx <= Len(temp_renames)
    /\ pc' = "done"
    /\ result' = Err("FailedToFinalize")
    /\ UNCHANGED <<fs, fs0, previews, idx, temp_renames, renamed_count,
                   rename_log, files, params, ui, tasks, handled>>

\* line 156: Ok(renamed_count)
ReturnOk ==
    /\ pc = "phase2"
    /\ idx > Len(temp_renames)
    /\ pc' = "done"
    /\ result' = Ok(renamed_count)
    /\ UNCHANGED <<fs, fs0, previews, idx, temp_renames, renamed_count,
                   rename_log, files, params, ui, tasks, handled>>

-----------------------------------------------------------------------------
(* Strings: case folding, matching, replacing *)

UpperLetters == "ABCDEFGHIJKLMNOPQRSTUVWXYZ"
LowerLetters == "abcdefghijklmnopqrstuvwxyz"

\* a cased letter outside ASCII, upper and lower
UpperNonAscii == "É"
LowerNonAscii == "é"

LowerOf ==
    LET upper == UpperLetters \o UpperNonAscii
        lower == LowerLetters \o LowerNonAscii
    IN  [ c \in { Char(upper, k) : k \in 1..Len(upper) } |->
            Char(lower, CHOOSE k \in 1..Len(upper) : Char(upper, k) = c) ]

\* char::to_lowercase on the characters of the model
LowerChar(c) == IF c \in DOMAIN LowerOf THEN LowerOf[c] ELSE c

\* str::to_lowercase
RECURSIVE ToLower(_)
ToLower(s) == IF s = "" THEN "" ELSE LowerChar(Head(s)) \o ToLower(Tail(s))

\* str::contains
Contains(s, sub) ==
    \E k \in 1..(Len(s) - Len(sub) + 1) : SubSeq(s, k, k + Len(sub) - 1) = sub

\* one pattern character against one text character: `wildcard` makes "."
\* the regex any-character, `ci` is RegexBuilder::case_insensitive
CharMatches(tc, patc, wildcard, ci) ==
    \/ wildcard /\ patc = "."
    \/ IF ci THEN LowerChar(tc) = LowerChar(patc) ELSE tc = patc

\* the pattern (a sequence of one-character atoms) matches at position k
MatchAt(text, k, pat, wildcard, ci) ==
    /\ k + Len(pat) - 1 <= Len(text)
    /\ \A n \in 1..Len(pat) :
          CharMatches(Char(text, k + n - 1), Char(pat, n), wildcard, ci)

\* a character of a capture-group name in a replacement string
CapLetters ==
    LET all == UpperLetters \o LowerLetters \o Digits \o "_"
    IN  { Char(all, k) : k \in 1..Len(all) }

IsCapLetter(c) == c \in CapLetters

\* the length of the capture-group name that starts at position k
RECURSIVE CapNameLen(_, _)
CapNameLen(rep, k) ==
    IF k <= Len(rep) /\ IsCapLetter(Char(rep, k)) THEN 1 + CapNameLen(rep, k + 1)
    ELSE 0

\* a capture-group name that denotes group 0, the whole match
RECURSIVE IsGroupZero(_)
IsGroupZero(name) ==
    name # "" /\ Head(name) = "0" /\ (Tail(name) = "" \/ IsGroupZero(Tail(name)))

\* regex's expansion of a replacement string for a match of a pattern
\* without capture groups: "$$" is "$", "$name" is the whole match for
\* group 0 and empty for any other group, a lone "$" stays
RECURSIVE ExpandFrom(_, _, _)
ExpandFrom(rep, k, matched) ==
    IF k > Len(rep) THEN ""
    ELSE IF Char(rep, k) # "$" THEN Char(rep, k) \o ExpandFrom(rep, k + 1, matched)
    ELSE IF k < Len(rep) /\ Char(rep, k + 1) = "$"
         THEN "$" \o ExpandFrom(rep, k + 2, matched)
    ELSE LET n == CapNameLen(rep, k + 1)
         IN  IF n = 0 THEN "$" \o ExpandFrom(rep, k + 1, matched)
             ELSE (IF IsGroupZero(SubSeq(rep, k + 1, k + n)) THEN matched ELSE "")
                      \o ExpandFrom(rep, k + n + 1, matched)

\* replace every non-overlapping match, scanning from the left
RECURSIVE ReplaceScan(_, _, _, _, _, _, _)
ReplaceScan(text, k, pat, rep, wildcard, ci, expand) ==
    IF k > Len(text) THEN ""
    ELSE IF MatchAt(text, k, pat, wildcard, ci)
         THEN (IF expand
               THEN ExpandFrom(rep, 1, SubSeq(text, k, k + Len(pat) - 1))
               ELSE rep)
                  \o ReplaceScan(text, k + Len(pat), pat, rep, wildcard, ci, expand)
         ELSE Char(text, k)
                  \o ReplaceScan(text, k + 1, pat, rep, wildcard, ci, expand)

\* str::replace
StrReplace(text, pat, rep) == ReplaceScan(text, 1, pat, rep, FALSE, FALSE, FALSE)

\* Regex::replace_all with a &str replacement
RegexReplaceAll(text, pat, rep, wildcard, ci) ==
    ReplaceScan(text, 1, pat, rep, wildcard, ci, TRUE)

-----------------------------------------------------------------------------
(* natural_cmp and extract_number *)

\* the characters of the model in code point order
Alphabet ==
    "$-./" \o Digits \o UpperLetters \o "_" \o LowerLetters \o "{}"
        \o UpperNonAscii \o LowerNonAscii

\* the rank of a character in the code point order
CodeOf == [ c \in { Char(Alphabet, k) : k \in 1..Len(Alphabet) } |->
              CHOOSE k \in 1..Len(Alphabet) : Char(Alphabet, k) = c ]

AsciiUpper == { Char(UpperLetters, k) : k \in 1..Len(UpperLetters) }

\* char::to_ascii_lowercase: only A-Z change
to_ascii_lowercase(c) == IF c \in AsciiUpper THEN LowerOf[c] ELSE c

DigitOf == [ c \in { Char(Digits, k) : k \in 1..Len(Digits) } |->
               (CHOOSE k \in 1..Len(Digits) : Char(Digits, k) = c) - 1 ]

\* char::is_ascii_digit
is_ascii_digit(c) == c \in DOMAIN DigitOf

\* u64 as four 16-bit limbs, the most significant first
U64Max == <<65535, 65535, 65535, 65535>>

\* u64::saturating_mul(10)
SaturatingMul10(x) ==
    LET t4 == x[4] * 10
        t3 == x[3] * 10 + (t4 \div 65536)
        t2 == x[2] * 10 + (t3 \div 65536)
        t1 == x[1] * 10 + (t2 \div 65536)
    IN  IF t1 >= 65536 THEN U64Max
        ELSE <<t1, t2 % 65536, t3 % 65536, t4 % 65536>>

\* u64::saturating_add of a digit
SaturatingAddDigit(x, d) ==
    LET t4 == x[4] + d
        t3 == x[3] + (t4 \div 65536)
        t2 == x[2] + (t3 \div 65536)
        t1 == x[1] + (t2 \div 65536)
    IN  IF t1 >= 65536 THEN U64Max
        ELSE <<t1, t2 % 65536, t3 % 65536, t4 % 65536>>

\* a comparison that never answers Greater
CmpU64_NeverGreater(x, y) == IF x = y THEN "Equal" ELSE "Less"

\* Ord::cmp on u64
CmpU64(x, y) ==
    IF x = y THEN "Equal"
    ELSE LET k == CHOOSE n \in 1..4 : x[n] # y[n] /\ \A m \in 1..(n - 1) : x[m] = y[m]
         IN  IF x[k] < y[k] THEN "Less" ELSE "Greater"

\* Ord::cmp on char
CmpChar(c, d) ==
    IF CodeOf[c] = CodeOf[d] THEN "Equal"
    ELSE IF CodeOf[c] < CodeOf[d] THEN "Less" ELSE "Greater"

\* extract_number, lines 89-102: consumes the digits from position pos on;
\* gives the number and the position of the first character not consumed
RECURSIVE extract_number(_, _, _)
extract_number(str, pos, num) ==
    IF pos <= Len(str) /\ is_ascii_digit(Char(str, pos))
    THEN LET next == SaturatingAddDigit(SaturatingMul10(num), DigitOf[Char(str, pos)])
         IN  IF next \in Seq(Nat)   \* the sum is computed before the next digit is read
             THEN extract_number(str, pos + 1, next)
             ELSE [num |-> next, pos |-> pos]
    ELSE [num |-> num, pos |-> pos]

\* the loop of natural_cmp, lines 60-85, with a_chars at i and b_chars at j
RECURSIVE NaturalCmpFrom(_, _, _, _)
NaturalCmpFrom(a, i, b, j) ==
    IF i > Len(a) /\ j > Len(b) THEN "Equal"
    ELSE IF i > Len(a) THEN "Less"
    ELSE IF j > Len(b) THEN "Greater"
    ELSE LET ac == Char(a, i)
             bc == Char(b, j)
         IN  IF is_ascii_digit(ac) /\ is_ascii_digit(bc)
             THEN LET a_num == extract_number(a, i, <<0, 0, 0, 0>>)
                      b_num == extract_number(b, j, <<0, 0, 0, 0>>)
                      other == CmpU64(a_num.num, b_num.num)
                  IN  IF other = "Equal"
                      THEN NaturalCmpFrom(a, a_num.pos, b, b_num.pos)
                      ELSE other
             ELSE LET other == CmpChar(to_ascii_lowercase(ac), to_ascii_lowercase(bc))
                  IN  IF other = "Equal"
                      THEN NaturalCmpFrom(a, i + 1, b, j + 1)
                      ELSE other

\* natural_cmp, lines 56-86
natural_cmp(a, b) == NaturalCmpFrom(a, 1, b, 1)

\* a stable sort: x goes before the first element it is Less than
RECURSIVE InsertStable(_, _)
InsertStable(sorted, x) ==
    IF sorted = <<>> THEN <<x>>
    ELSE IF natural_cmp(x.name, Head(sorted).name) = "Less" THEN <<x>> \o sorted
    ELSE <<Head(sorted)>> \o InsertStable(Tail(sorted), x)

\* a scan that returns the entries in the order read_dir gave them
sort_by_ListingOrder(fl) == fl

\* line 51: files.sort_by(|a, b| natural_cmp(&a.name, &b.name))
RECURSIVE sort_by(_)
sort_by(fl) ==
    IF fl = <<>> THEN <<>>
    ELSE InsertStable(sort_by(SubSeq(fl, 1, Len(fl) - 1)), fl[Len(fl)])

\* natural_cmp applied to the pairs of three names
NaturalCmpCall ==
    /\ pc = "call"
    /\ params.op = "natural_cmp"
    /\ result' = [ab |-> natural_cmp(params.a, params.b),
                  ba |-> natural_cmp(params.b, params.a),
                  bc |-> natural_cmp(params.b, params.c),
                  ac |-> natural_cmp(params.a, params.c),
                  aa |-> natural_cmp(params.a, params.a)]
    /\ pc' = "compared"
    /\ UNCHANGED <<fs, fs0, previews, idx, temp_renames, renamed_count,
                   rename_log, files, params, ui, tasks, handled>>

\* line 51 applied to the three names, in the order a, b, c
SortNames ==
    /\ pc = "compared"
    /\ files' = sort_by(<< [path |-> <<"d", params.a>>, name |-> params.a],
                           [path |-> <<"d", params.b>>, name |-> params.b],
                           [path |-> <<"d", params.c>>, name |-> params.c] >>)
    /\ pc' = "sorted"
    /\ UNCHANGED <<fs, fs0, previews, idx, temp_renames, renamed_count,
                   rename_log, result, params, ui, tasks, handled>>

-----------------------------------------------------------------------------
(* rename: the strategies and detect_conflicts *)

\* theme.rs line 28
MAX_PATTERN_LENGTH == 1024

\* types.rs FileEntry, lines 8-11
FileEntry(path) == [path |-> path, name |-> FileName(path)]

\* a conflict detection that compares the names as they are
detect_conflicts_CaseSensitive(ps) ==
    [ k \in 1..Len(ps) |->
        IF Cardinality({ m \in 1..Len(ps) : ps[m].new_name = ps[k].new_name }) > 1
        THEN [ps[k] EXCEPT !.has_conflict = TRUE]
        ELSE ps[k] ]

\* detect_conflicts, lines 118-132: count the lowercased names, flag
\* the previews whose count is above 1
detect_conflicts(ps) ==
    LET keys == { ToLower(ps[k].new_name) : k \in 1..Len(ps) }
        counts == [ key \in keys |->
                      Cardinality({ k \in 1..Len(ps) : ToLower(ps[k].new_name) = key }) ]
    IN  [ k \in 1..Len(ps) |->
            IF counts[ToLower(ps[k].new_name)] > 1
            THEN [ps[k] EXCEPT !.has_conflict = TRUE]
            ELSE ps[k] ]

\* replace_case_insensitive, lines 108-114: the escaped pattern matches
\* literally, without regard to case
replace_case_insensitive(text, pattern, replacement) ==
    RegexReplaceAll(text, pattern, replacement, FALSE, TRUE)

\* the new name of one file, lines 36 and 48-52
FindReplaceName(name, P) ==
    IF P.use_regex
    THEN RegexReplaceAll(name, P.pattern, P.replacement, TRUE, ~P.case_sensitive)
    ELSE IF P.case_sensitive
         THEN StrReplace(name, P.pattern, P.replacement)
         ELSE replace_case_insensitive(name, P.pattern, P.replacement)

\* a loop that pushes a preview for every file
KeepPreview_Always(new_name, name) == TRUE

\* lines 37 and 53: if new_name != file.name
KeepPreview(new_name, name) == new_name # name

\* the loops of lines 35-45 and 47-61
RECURSIVE FindReplaceFrom(_, _, _)
FindReplaceFrom(fl, k, P) ==
    IF k > Len(fl) THEN <<>>
    ELSE LET new_name == FindReplaceName(fl[k].name, P)
         IN  (IF KeepPreview(new_name, fl[k].name)
              THEN << [original_path |-> fl[k].path, original_name |-> fl[k].name,
                       new_name |-> new_name, has_conflict |-> FALSE] >>
              ELSE <<>>)
                 \o FindReplaceFrom(fl, k + 1, P)

\* apply_find_replace, lines 11-66
apply_find_replace(fl, P) ==
    IF P.pattern = "" THEN [result |-> Ok(0), previews |-> <<>>]
    ELSE IF Len(P.pattern) > MAX_PATTERN_LENGTH
         THEN [result |-> Err("PatternTooLong"), previews |-> <<>>]
    ELSE LET ps == detect_conflicts(FindReplaceFrom(fl, 1, P))
         IN  [result |-> Ok(Len(ps)), previews |-> ps]

\* u32 as <<high, low>> 16-bit halves
U32Max == <<65535, 65535>>

\* an addition that wraps around at 2^32
SaturatingAdd_Wrapping(x, n) ==
    IF x[2] + n < 65536 THEN <<x[1], x[2] + n>>
    ELSE <<(x[1] + 1) % 65536, x[2] + n - 65536>>

\* u32::saturating_add(x, n) for n below 65536
SaturatingAdd(x, n) ==
    IF x[2] + n < 65536 THEN <<x[1], x[2] + n>>
    ELSE IF x[1] + 1 < 65536 THEN <<x[1] + 1, x[2] + n - 65536>>
    ELSE U32Max

\* u32 Display: long division by ten over the halves
RECURSIVE DecimalU32(_)
DecimalU32(x) ==
    IF x[1] = 0 THEN Decimal(x[2])
    ELSE LET rest == (x[1] % 10) * 65536 + x[2]
         IN  DecimalU32(<<x[1] \div 10, rest \div 10>>) \o Char(Digits, (rest % 10) + 1)

\* format!("{:0>width$}", ..): zeros on the left up to the width
RECURSIVE PadZeros(_, _)
PadZeros(s, width) == IF Len(s) >= width THEN s ELSE PadZeros("0" \o s, width)

\* the position of the last "." of a name, 0 when there is none
LastDot(name) ==
    IF \E k \in 1..Len(name) : Char(name, k) = "."
    THEN CHOOSE k \in 1..Len(name) :
            /\ Char(name, k) = "."
            /\ \A m \in (k + 1)..Len(name) : Char(name, m) # "."
    ELSE 0

\* lines 84-88: Path::extension, rendered with its dot; a name without a
\* dot, or whose only dot is its first character, has no extension
extension(path) ==
    LET name == FileName(path)
    IN  IF name = ".." \/ LastDot(name) <= 1 THEN ""
        ELSE SubSeq(name, LastDot(name), Len(name))

\* lines 82-93: the new name of the file at 0-based position `index`
IterationName(file, index, P) ==
    LET number == SaturatingAdd(P.start_number, index)
        formatted_number == PadZeros(DecimalU32(number), P.padding)
    IN  StrReplace(P.template, "{n}", formatted_number) \o extension(file.path)

\* a numbering that leaves out the files whose name would not change
apply_iteration_numbering_SkipNoOps(fl, P) ==
    IF ~Contains(P.template, "{n}")
    THEN [result |-> Err("MissingPlaceholder"), previews |-> <<>>]
    ELSE LET keep == { k \in 1..Len(fl) : IterationName(fl[k], k - 1, P) # fl[k].name }
             nth(j) == CHOOSE k \in keep : Cardinality({ m \in keep : m <= k }) = j
             ps == [ j \in 1..Cardinality(keep) |->
                       [original_path |-> fl[nth(j)].path,
                        original_name |-> fl[nth(j)].name,
                        new_name |-> IterationName(fl[nth(j)], nth(j) - 1, P),
                        has_conflict |-> FALSE] ]
         IN  [result |-> Ok(Len(ps)), previews |-> ps]

\* apply_iteration_numbering, lines 69-105
apply_iteration_numbering(fl, P) ==
    IF ~Contains(P.template, "{n}")
    THEN [result |-> Err("MissingPlaceholder"), previews |-> <<>>]
    ELSE LET ps == detect_conflicts(
                     [ k \in 1..Len(fl) |->
                         [original_path |-> fl[k].path, original_name |-> fl[k].name,
                          new_name |-> IterationName(fl[k], k - 1, P),
                          has_conflict |-> FALSE] ])
         IN  [result |-> Ok(Len(ps)), previews |-> ps]

\* a call of apply_find_replace
ApplyFindReplace ==
    /\ pc = "call"
    /\ params.op = "find_replace"
    /\ LET r == apply_find_replace(files, params)
       IN  result' = r.result /\ previews' = r.previews
    /\ pc' = "returned"
    /\ UNCHANGED <<fs, fs0, idx, temp_renames, renamed_count, rename_log,
                   files, params, ui, tasks, handled>>

\* a call of apply_iteration_numbering
ApplyIterationNumbering ==
    /\ pc = "call"
    /\ params.op = "iteration"
    /\ LET r == apply_iteration_numbering(files, params)
       IN  result' = r.result /\ previews' = r.previews
    /\ pc' = "returned"
    /\ UNCHANGED <<fs, fs0, idx, temp_renames, renamed_count, rename_log,
                   files, params, ui, tasks, handled>>

-----------------------------------------------------------------------------
(* The batches and filesystems validate_and_rename is run on *)

\* a name that starts with the temporary prefix
NameTempA == temp_prefix \o "a"

\* the files that may exist when the commit starts
PathUniverse == { <<"d", "a">>, <<"d", "b">>, <<"d", NameTempA>>,
                  <<"e", "a">> }

\* the new names a preview may carry
NewNames == { "a", "b", "B", NameTempA }

IdentityFs(S) == [ p \in S |-> p ]

NoParams == [op |-> "none"]

\* app/mod.rs lines 49 and 61-62: no file selected, no preview pending
NoUi == [selected_index |-> <<>>, pending_preview |-> FALSE]

\* a preview as the strategies build it (types.rs RenamePreview, lines 15-20)
Preview(path, new_name) ==
    [original_path |-> path, original_name |-> FileName(path),
     new_name |-> new_name, has_conflict |-> FALSE]

Injective(s) == \A a, b \in 1..Len(s) : s[a] = s[b] => a = b

\* a batch over existing files, with distinct original paths (the
\* controller's file list holds no path twice), on any filesystem; the
\* conflict flags are the ones detect_conflicts sets, or all unset
Init ==
    /\ \E S \in SUBSET PathUniverse :
          /\ fs = IdentityFs(S)
          /\ \E n \in 0..MaxBatch :
                \E q \in [1..n -> S], ns \in [1..n -> NewNames], flagged \in BOOLEAN :
                    /\ Injective(q)
                    /\ LET ps == [k \in 1..n |-> Preview(q[k], ns[k])]
                       IN  previews = IF flagged THEN detect_conflicts(ps) ELSE ps
    /\ fs0 = fs
    /\ pc = "validate"
    /\ idx = 0
    /\ temp_renames = <<>>
    /\ renamed_count = 0
    /\ result = NoResult
    /\ rename_log = <<>>
    /\ files = <<>>
    /\ params = NoParams
    /\ ui = NoUi
    /\ tasks = <<>>
    /\ handled = 0

Next ==
    \/ ReturnEmpty
    \/ ValidateFail
    \/ ValidateOk
    \/ Phase1Skip
    \/ Phase1Rename
    \/ Phase1Fail
    \/ Phase1Done
    \/ Phase2Rename
    \/ Phase2Fail
    \/ ReturnOk

Spec == Init /\ [][Next]_vars

-----------------------------------------------------------------------------
(* The file lists and parameters the strategies are run on *)

FileUniverse == { <<"d", "a">>, <<"d", "A">>, <<"d", "ab">>, <<"d", "Ab">>,
                  <<"d", "a.b">>, <<"d", "a0">>, <<"e", "a">> }

RECURSIVE Repeat(_, _)
Repeat(c, n) ==
    IF n = 0 THEN ""
    ELSE IF n % 2 = 0 THEN LET half == Repeat(c, n \div 2) IN half \o half
    ELSE c \o Repeat(c, n - 1)

\* patterns: empty, literal, with the regex any-character, absent from
\* every name, and one above the length limit
Patterns == { "", "a", "A", "b", ".", "ab", "a.", "c",
              Repeat("a", MAX_PATTERN_LENGTH + 1) }

\* replacements: empty, plain, with a path separator, with "$"
Replacements == { "", "A", "b", "/", "a/", "$0", "$$", "$a" }

FindReplaceParams ==
    [ op : {"find_replace"}, pattern : Patterns, replacement : Replacements,
      use_regex : BOOLEAN, case_sensitive : BOOLEAN ]

Templates == { "{n}", "a{n}", "A{n}", "{n}_{n}", "a" }

StartNumbers == { <<0, 0>>, <<0, 9>>, <<65535, 65534>>, U32Max }

Paddings == { 0, 1, 3 }

IterationParams ==
    [ op : {"iteration"}, template : Templates, start_number : StartNumbers,
      padding : Paddings ]

InitStrategy ==
    /\ \E n \in 0..MaxFiles :
          \E q \in [1..n -> FileUniverse] :
              /\ Injective(q)
              /\ files = [k \in 1..n |-> FileEntry(q[k])]
    /\ params \in FindReplaceParams \cup IterationParams
    /\ previews = <<>>
    /\ pc = "call"
    /\ result = NoResult
    /\ fs = IdentityFs({})
    /\ fs0 = fs
    /\ idx = 0
    /\ temp_renames = <<>>
    /\ renamed_count = 0
    /\ rename_log = <<>>
    /\ ui = NoUi
    /\ tasks = <<>>
    /\ handled = 0

NextStrategy ==
    \/ ApplyFindReplace
    \/ ApplyIterationNumbering

SpecStrategy == InitStrategy /\ [][NextStrategy]_vars

-----------------------------------------------------------------------------
(* scan_directory *)

\* Path::is_dir
IsDir(path) == path \in Dirs

\* fs::read_dir: the paths of the direct children, files and directories
Children(f, path) ==
    { p \in DOMAIN f \cup (Dirs \ {<<>>}) : ParentOr(p) = path }

\* lines 33-49: the entries in listing order, directories skipped
RECURSIVE CollectFiles(_)
CollectFiles(entries) ==
    IF entries = <<>> THEN <<>>
    ELSE (IF IsDir(Head(entries)) THEN <<>> ELSE << FileEntry(Head(entries)) >>)
            \o CollectFiles(Tail(entries))

\* lines 14-16: the path does not exist
ScanNotFound ==
    /\ pc = "call"
    /\ params.op = "scan_directory"
    /\ ~Exists(fs, params.path)
    /\ result' = Err("PathDoesNotExist")
    /\ files' = <<>>
    /\ pc' = "returned"
    /\ UNCHANGED <<fs, fs0, previews, idx, temp_renames, renamed_count,
                   rename_log, params, ui, tasks, handled>>

\* lines 18-27: the path is a file, returned alone
ScanSingleFile ==
    /\ pc = "call"
    /\ params.op = "scan_directory"
    /\ Exists(fs, params.path)
    /\ ~IsDir(params.path)
    /\ result' = Ok(1)
    /\ files' = << FileEntry(params.path) >>
    /\ pc' = "returned"
    /\ UNCHANGED <<fs, fs0, previews, idx, temp_renames, renamed_count,
                   rename_log, params, ui, tasks, handled>>

\* lines 29-52: the directory is listed in the order the system gives,
\* the files are collected and sorted
ScanDirectory ==
    /\ pc = "call"
    /\ params.op = "scan_directory"
    /\ IsDir(params.path)
    /\ LET children == Children(fs, params.path)
           n == Cardinality(children)
       IN  \E entries \in [1..n -> children] :
              /\ Injective(entries)
              /\ files' = sort_by(CollectFiles(entries))
              /\ result' = Ok(Len(files'))
    /\ pc' = "returned"
    /\ UNCHANGED <<fs, fs0, previews, idx, temp_renames, renamed_count,
                   rename_log, params, ui, tasks, handled>>

\* lines 30 and 34: read_dir or an entry fails, the scan returns the error
ScanReadFail ==
    /\ pc = "call"
    /\ params.op = "scan_directory"
    /\ IsDir(params.path)
    /\ result' = Err("FailedToRead")
    /\ files' = <<>>
    /\ pc' = "returned"
    /\ UNCHANGED <<fs, fs0, previews, idx, temp_renames, renamed_count,
                   rename_log, params, ui, tasks, handled>>

-----------------------------------------------------------------------------
(* The directories scan_directory is run on *)

\* the files that may exist: in d, in its subdirectory s, in e, in the root
ScanUniverse == { <<"d", "file2">>, <<"d", "file10">>, <<"d", "file1">>,
                  <<"d", "A">>, <<"d", "a">>, <<"d", "s", "x">>, <<"e", "b">>,
                  <<"r">> }

\* directories, a file, a path that does not exist
ScanPaths == { <<>>, <<"d">>, <<"e">>, <<"d", "s">>, <<"d", "a">>, <<"q">> }

InitScan ==
    /\ \E S \in SUBSET ScanUniverse : fs = IdentityFs(S)
    /\ fs0 = fs
    /\ params \in [ op : {"scan_directory"}, path : ScanPaths ]
    /\ pc = "call"
    /\ result = NoResult
    /\ files = <<>>
    /\ previews = <<>>
    /\ idx = 0
    /\ temp_renames = <<>>
    /\ renamed_count = 0
    /\ rename_log = <<>>
    /\ ui = NoUi
    /\ tasks = <<>>
    /\ handled = 0

NextScan ==
    \/ ScanNotFound
    \/ ScanSingleFile
    \/ ScanDirectory
    \/ ScanReadFail

SpecScan == InitScan /\ [][NextScan]_vars

-----------------------------------------------------------------------------
(* The names natural_cmp is run on *)

\* names with digit runs, leading zeros, letter case, characters below and
\* above the digits, a cased letter outside ASCII, and digit runs at and
\* above the largest 64-bit unsigned number
CmpNames == { "file1", "file2", "file10", "File2", "a", "A", "a0", "a00",
              "a01b", "a1b", "a-1", "a_", "é", "É",
              "18446744073709551615", "18446744073709551616",
              "184467440737095516150" }

InitCmp ==
    /\ params \in [ op : {"natural_cmp"}, a : CmpNames, b : CmpNames, c : CmpNames ]
    /\ pc = "call"
    /\ result = NoResult
    /\ files = <<>>
    /\ previews = <<>>
    /\ fs = IdentityFs({})
    /\ fs0 = fs
    /\ idx = 0
    /\ temp_renames = <<>>
    /\ renamed_count = 0
    /\ rename_log = <<>>
    /\ ui = NoUi
    /\ tasks = <<>>
    /\ handled = 0

NextCmp ==
    \/ NaturalCmpCall
    \/ SortNames

SpecCmp == InitCmp /\ [][NextCmp]_vars

-----------------------------------------------------------------------------
(* Properties of validate_and_rename *)

\* the previews that phase 1 renames, stated on the fields themselves
RenamedIdx(ps) == { k \in 1..Len(ps) : ps[k].new_name # ps[k].original_name }

\* the preview behind the j-th entry of temp_renames
NthRenamed(ps, j) ==
    CHOOSE k \in RenamedIdx(ps) :
        Cardinality({ m \in RenamedIdx(ps) : m <= k }) = j

\* preview k's target exists on disk and is no original path of the batch
OffendingAt(ps, f, k) ==
    /\ \/ TargetPath(ps[k]) \in DOMAIN f
       \/ TargetPath(ps[k]) \in Dirs
    /\ \A m \in 1..Len(ps) : ps[m].original_path # TargetPath(ps[k])

\* preview k resolves to the target of an earlier preview
RepeatsAt(ps, k) == \E m \in 1..(k - 1) : TargetPath(ps[m]) = TargetPath(ps[k])

\* nothing was renamed: every file is where it was
Untouched == fs = fs0 /\ rename_log = <<>>

\* file `id` of the initial filesystem is stored at `path`
StoredAt(id, path) == path \in DOMAIN fs /\ fs[path] = id

(* C1: if some preview's target path exists on disk and is not an original  *)
(* path of the batch, validate_and_rename fails and renames nothing, at     *)
(* whatever position the offending preview is.                              *)
C1_TargetExistsNoMutation ==
    (\E k \in 1..Len(previews) : OffendingAt(previews, fs0, k))
        => /\ Untouched
           /\ pc \in {"validate", "done"}
           /\ pc = "done" => ~result.ok /\ result.err \in {"TargetExists", "DuplicateTarget"}

\* C1's case: the offending preview is the last of three, after two valid renames
C1_Witness ==
    /\ pc = "done"
    /\ Len(previews) = 3
    /\ OffendingAt(previews, fs0, 3)
    /\ ~OffendingAt(previews, fs0, 1) /\ ~OffendingAt(previews, fs0, 2)
    /\ RenamedIdx(previews) = {1, 2, 3}
    /\ result.err = "TargetExists"
    /\ Untouched

(* C2 as stated: if two previews resolve to the same target path,           *)
(* validate_and_rename fails with a duplicate-target error and renames      *)
(* nothing.                                                                 *)
C2_DuplicateAlwaysDuplicateError ==
    (\E k \in 1..Len(previews) : RepeatsAt(previews, k))
        => /\ Untouched
           /\ pc = "done" => result = Err("DuplicateTarget")

(* C2 amended: if two previews resolve to the same target path,             *)
(* validate_and_rename fails before any rename and the directory is         *)
(* unchanged; the error is the duplicate-target error unless a preview up   *)
(* to the first repeating one has a target that exists on disk outside the  *)
(* batch, and then it is the target-exists error.                           *)
C2_DuplicateFailsBeforeRename ==
    (\E k \in 1..Len(previews) : RepeatsAt(previews, k))
        => LET first == CHOOSE k \in 1..Len(previews) :
                            /\ RepeatsAt(previews, k)
                            /\ \A m \in 1..(k - 1) : ~RepeatsAt(previews, m)
           IN  /\ Untouched
               /\ pc \in {"validate", "done"}
               /\ pc = "done" =>
                    result = IF \E m \in 1..first : OffendingAt(previews, fs0, m)
                             THEN Err("TargetExists")
                             ELSE Err("DuplicateTarget")

\* C2's case: a rename onto the name a no-op preview of the batch keeps
C2_Witness ==
    /\ pc = "done"
    /\ \E k, m \in 1..Len(previews) :
          /\ k # m
          /\ TargetPath(previews[k]) = TargetPath(previews[m])
          /\ previews[k].new_name = previews[k].original_name
          /\ previews[m].new_name # previews[m].original_name
    /\ result = Err("DuplicateTarget")
    /\ Untouched

(* C3: when validation passes and no rename call fails, every batch file    *)
(* ends at parent/new_name, no file is overwritten or lost, files outside   *)
(* the batch are untouched, and the count of renamed files is returned      *)
(* (2 for the swap A->B, B->A).                                             *)
C3_CommitMovesEveryFile ==
    (pc = "done" /\ result.ok)
        => /\ \A k \in 1..Len(previews) :
                 StoredAt(previews[k].original_path, TargetPath(previews[k]))
           /\ \A p \in DOMAIN fs0 :
                 (\A k \in 1..Len(previews) : previews[k].original_path # p)
                     => StoredAt(p, p)
           /\ \A k \in 1..Len(rename_log) : ~rename_log[k].replaced
           /\ result.count = Cardinality(RenamedIdx(previews))

(* C4: in a batch that passed validation, a preview's temporary path is no  *)
(* final target of the batch, no temporary path of another preview and no   *)
(* existing file, so no rename of either phase replaces an existing file.   *)
C4_TempNeverCollides ==
    (pc \in {"phase1", "phase2"} \/ (pc = "done" /\ rename_log # <<>>))
        => /\ \A k \in RenamedIdx(previews) :
                 /\ \A m \in 1..Len(previews) :
                       TempPath(previews[k]) # TargetPath(previews[m])
                 /\ \A m \in RenamedIdx(previews) \ {k} :
                       TempPath(previews[k]) # TempPath(previews[m])
                 /\ TempPath(previews[k]) \notin DOMAIN fs0 \ {previews[k].original_path}
           /\ \A k \in 1..Len(rename_log) : ~rename_log[k].replaced

(* C5: a preview whose new_name equals its original_name is passed to no    *)
(* fs::rename call: each phase-1 call moves the original of a preview       *)
(* whose name changes, each phase-2 call moves the temporary file of such   *)
(* a preview to its target; on success the returned count is the number of  *)
(* previews whose name changes (0 for an empty or all-no-op batch).         *)
C5_NoOpSkippedAndCounted ==
    /\ \A n \in 1..Len(rename_log) :
          LET e == rename_log[n]
          IN  IF e.phase = 1
              THEN /\ e.preview \in RenamedIdx(previews)
                   /\ e.from = previews[e.preview].original_path
              ELSE /\ e.preview \in 1..Cardinality(RenamedIdx(previews))
                   /\ LET k == NthRenamed(previews, e.preview)
                      IN  /\ e.from = TempPath(previews[k])
                          /\ e.to = TargetPath(previews[k])
    /\ Len(temp_renames) <= Cardinality(RenamedIdx(previews))
    /\ (pc = "done" /\ result.ok)
          => /\ result.count = Cardinality(RenamedIdx(previews))
             /\ Len(rename_log) = 2 * result.count

\* C5's case: a committed batch of one no-op and two renames returns 2
C5_Witness ==
    /\ pc = "done" /\ result = Ok(2)
    /\ Len(previews) = 3
    /\ previews[2].new_name = previews[2].original_name
    /\ RenamedIdx(previews) = {1, 3}
    /\ Len(rename_log) = 4
    /\ StoredAt(previews[2].original_path, previews[2].original_path)

(* C6: when the phase-1 rename of a preview fails, the error is returned at *)
(* once: the files renamed before it are at their temporary names, the      *)
(* failing file and all later files at their original names, no phase-2     *)
(* rename was made and no file is at its final name.                        *)
C6_Phase1FailureLeavesTemps ==
    (pc = "done" /\ result = Err("FailedToRename"))
        => /\ \A k \in RenamedIdx(previews) :
                 IF k < idx
                 THEN StoredAt(previews[k].original_path, TempPath(previews[k]))
                 ELSE StoredAt(previews[k].original_path, previews[k].original_path)
           /\ \A n \in 1..Len(rename_log) : rename_log[n].phase = 1
           /\ \A k \in RenamedIdx(previews) :
                 ~StoredAt(previews[k].original_path, TargetPath(previews[k]))

(* C7: when the phase-2 rename of the k-th temporary file fails, the error  *)
(* is returned at once: the first k-1 files are at their final names, the   *)
(* failing one and the later ones at their temporary names, and no renamed  *)
(* file is at its original name.                                            *)
C7_Phase2FailureLeavesMix ==
    (pc = "done" /\ result = Err("FailedToFinalize"))
        => \A j \in 1..Cardinality(RenamedIdx(previews)) :
              LET p == previews[NthRenamed(previews, j)]
              IN  /\ IF j < idx
                     THEN StoredAt(p.original_path, TargetPath(p))
                     ELSE StoredAt(p.original_path, TempPath(p))
                  /\ ~StoredAt(p.original_path, p.original_path)

\* the batch with every conflict flag unset
ErasedFlags(ps) == [ k \in 1..Len(ps) |-> [ps[k] EXCEPT !.has_conflict = FALSE] ]

(* C18: conflict flags are advisory: validate_and_rename accepts or rejects *)
(* a batch, and renames, exactly as it does for the same batch with every   *)
(* flag unset; a batch flagged because new names differ only in letter case *)
(* passes validation and is committed.                                      *)
C18_FlagsAreAdvisory ==
    LET plain == ErasedFlags(previews)
        verdict == Validate(plain, fs0)
    IN  /\ pc \in {"phase1", "phase2"} => verdict = "ok"
        /\ (pc = "done" /\ previews # <<>>)
              => IF verdict = "ok"
                 THEN result.ok \/ result.err \in {"FailedToRename", "FailedToFinalize"}
                 ELSE result = Err(verdict) /\ Untouched
        /\ \A n \in 1..Len(rename_log) :
              LET e == rename_log[n]
              IN  e.phase = 1
                    => /\ e.from = plain[e.preview].original_path
                       /\ e.to = TempPath(plain[e.preview])
                       /\ plain[e.preview].new_name # plain[e.preview].original_name
        /\ (pc = "done" /\ result.ok)
              => result.count = Cardinality(RenamedIdx(plain))

\* C18's case: two previews flagged for new names that differ only in
\* letter case, committed
C18_Witness ==
    /\ pc = "done" /\ result = Ok(2)
    /\ Len(previews) = 2
    /\ previews[1].has_conflict /\ previews[2].has_conflict
    /\ previews[1].new_name = "b" /\ previews[2].new_name = "B"
    /\ StoredAt(previews[1].original_path, TargetPath(previews[1]))
    /\ StoredAt(previews[2].original_path, TargetPath(previews[2]))

\* the positions of the rename calls of one phase in the log
PhaseCalls(ph) == { n \in 1..Len(rename_log) : rename_log[n].phase = ph }

\* the j-th call of a phase
NthCall(ph, j) ==
    CHOOSE n \in PhaseCalls(ph) : Cardinality({ m \in PhaseCalls(ph) : m <= n }) = j

(* C19: within one commit every phase-1 rename happens before the first     *)
(* phase-2 rename, the phase-1 renames follow the order of the preview      *)
(* list, and the phase-2 renames follow the order in which phase 1 made     *)
(* its renames.                                                             *)
C19_PhaseOrder ==
    /\ \A m \in PhaseCalls(1), n \in PhaseCalls(2) : m < n
    /\ PhaseCalls(2) # {} => Cardinality(PhaseCalls(1)) = Cardinality(RenamedIdx(previews))
    /\ \A m, n \in PhaseCalls(1) :
          m < n => rename_log[m].preview < rename_log[n].preview
    /\ Cardinality(PhaseCalls(2)) <= Cardinality(PhaseCalls(1))
    /\ \A j \in 1..Cardinality(PhaseCalls(2)) :
          /\ rename_log[NthCall(2, j)].from = rename_log[NthCall(1, j)].to
          /\ rename_log[NthCall(2, j)].to
                = TargetPath(previews[rename_log[NthCall(1, j)].preview])

\* C19's case: a committed batch of three renames, six calls
C19_Witness ==
    /\ pc = "done" /\ result = Ok(3)
    /\ Len(rename_log) = 6
    /\ PhaseCalls(1) = {1, 2, 3} /\ PhaseCalls(2) = {4, 5, 6}
    /\ rename_log[1].preview = 1 /\ rename_log[3].preview = 3
    /\ rename_log[4].from = rename_log[1].to
    /\ rename_log[6].from = rename_log[3].to

-----------------------------------------------------------------------------
(* Properties of the strategies *)

Returned(op) == pc = "returned" /\ params.op = op /\ result.ok

(* C8: in a batch returned by apply_find_replace or                         *)
(* apply_iteration_numbering a preview has has_conflict = TRUE exactly      *)
(* when another preview of the batch has the same new_name, letter case     *)
(* ignored.                                                                 *)
C8_ConflictIffSharedName ==
    (Returned("find_replace") \/ Returned("iteration"))
        => \A k \in 1..Len(previews) :
              previews[k].has_conflict
                  <=> \E m \in 1..Len(previews) :
                         /\ m # k
                         /\ ToLower(previews[m].new_name) = ToLower(previews[k].new_name)

\* C8's case: two new names that differ only in case, a third that differs
C8_Witness ==
    /\ Returned("find_replace")
    /\ Len(previews) = 3
    /\ previews[1].new_name # previews[3].new_name
    /\ ToLower(previews[1].new_name) = ToLower(previews[3].new_name)
    /\ previews[1].has_conflict /\ previews[3].has_conflict
    /\ ~previews[2].has_conflict

(* C9: every preview apply_find_replace produces has a new_name without a   *)
(* path separator, so the target path the executor resolves lies in the     *)
(* original file's own directory.                                           *)
C9_NewNameIsBare ==
    Returned("find_replace")
        => \A k \in 1..Len(previews) :
              /\ ~Contains(previews[k].new_name, "/")
              /\ ParentOr(TargetPath(previews[k])) = ParentOr(previews[k].original_path)

\* the pattern occurs in the name, under the call's matching mode
Occurs(name, P) ==
    \E k \in 1..Len(name) :
        /\ k + Len(P.pattern) - 1 <= Len(name)
        /\ \A n \in 1..Len(P.pattern) :
              LET tc == Char(name, k + n - 1)
                  patc == Char(P.pattern, n)
              IN  \/ P.use_regex /\ patc = "."
                  \/ IF P.case_sensitive
                     THEN tc = patc
                     ELSE ToLower(tc) = ToLower(patc)

\* the files whose name the replacement changes
Changed(fl, P) == { k \in 1..Len(fl) : FindReplaceName(fl[k].name, P) # fl[k].name }

Succ32(x) ==
    IF x = <<65535, 65535>> THEN x
    ELSE IF x[2] = 65535 THEN <<x[1] + 1, 0>>
    ELSE <<x[1], x[2] + 1>>

\* start_number + i by counting up i times, stopping at the maximum
RECURSIVE CountUp(_, _)
CountUp(start, i) == IF i = 0 THEN start ELSE Succ32(CountUp(start, i - 1))

\* order of 32-bit unsigned numbers
Leq32(x, y) == x[1] < y[1] \/ (x[1] = y[1] /\ x[2] <= y[2])

\* the value of a string of decimal digits as a 32-bit unsigned number
RECURSIVE ParseU32(_, _)
ParseU32(str, acc) ==
    IF str = "" THEN acc
    ELSE LET digit == CHOOSE v \in 0..9 : Char(Digits, v + 1) = Head(str)
             low == acc[2] * 10 + digit
         IN  ParseU32(Tail(str), <<acc[1] * 10 + (low \div 65536), low % 65536>>)

\* the number in the new name of preview k, for the template "{n}": the
\* digits before the extension
NumberOf(k) ==
    LET name == previews[k].new_name
    IN  ParseU32(SubSeq(name, 1, Len(name) - Len(extension(files[k].path))), <<0, 0>>)

(* C11: apply_iteration_numbering gives the file at 0-based position i the  *)
(* number start_number + i, stopping at the largest 32-bit unsigned number  *)
(* instead of wrapping: the numbers follow the order of the given files     *)
(* and never decrease along it.                                             *)
C11_NumbersFollowFileOrder ==
    Returned("iteration")
        => /\ Len(previews) = Len(files)
           /\ \A k \in 1..Len(previews) :
                 /\ previews[k].original_path = files[k].path
                 /\ previews[k].new_name =
                        StrReplace(params.template, "{n}",
                                   PadZeros(DecimalU32(CountUp(params.start_number, k - 1)),
                                            params.padding))
                            \o extension(files[k].path)
                 /\ params.template = "{n}"
                        => /\ NumberOf(k) = CountUp(params.start_number, k - 1)
                           /\ Leq32(params.start_number, NumberOf(k))
                           /\ k > 1 => Leq32(NumberOf(k - 1), NumberOf(k))

\* C11's case: three files not in alphabetical order, numbered up to the
\* largest number, where the count stops
C11_Witness ==
    /\ Returned("iteration")
    /\ params.template = "{n}" /\ params.padding = 0
    /\ params.start_number = <<65535, 65534>>
    /\ Len(files) = 3
    /\ files[1].name = "ab" /\ files[2].name = "a" /\ files[3].name = "A"
    /\ previews[1].new_name = "4294967294"
    /\ previews[2].new_name = "4294967295"
    /\ previews[3].new_name = "4294967295"

(* C12: for a template that contains {n}, apply_iteration_numbering returns *)
(* one preview per input file, in input order and with the file's path,     *)
(* also for a file whose computed new name is the name it has.              *)
C12_OnePreviewPerFile ==
    (pc = "returned" /\ params.op = "iteration" /\ Contains(params.template, "{n}"))
        => /\ result = Ok(Len(files))
           /\ Len(previews) = Len(files)
           /\ \A k \in 1..Len(files) :
                 /\ previews[k].original_path = files[k].path
                 /\ previews[k].original_name = files[k].name

\* C12's case: of three files the first gets the name it already has
C12_Witness ==
    /\ Returned("iteration")
    /\ Len(files) = 3 /\ Len(previews) = 3
    /\ previews[1].new_name = previews[1].original_name
    /\ previews[1].original_path = files[1].path
    /\ previews[2].new_name # previews[2].original_name
    /\ previews[3].original_path = files[3].path

-----------------------------------------------------------------------------
(* Properties of natural_cmp *)

Compared == pc \in {"compared", "sorted"} /\ params.op = "natural_cmp"

\* the digits that end a name, and what stands before them
RECURSIVE RunStart(_, _)
RunStart(name, k) ==
    IF k >= 1 /\ Char(name, k) \in Range(<<"0", "1", "2", "3", "4", "5", "6", "7", "8", "9">>)
    THEN RunStart(name, k - 1)
    ELSE k + 1

TrailingRun(name) == SubSeq(name, RunStart(name, Len(name)), Len(name))
Stem(name) == SubSeq(name, 1, RunStart(name, Len(name)) - 1)

HasDigit(str) == \E k \in 1..Len(str) : RunStart(str, k) <= k

RECURSIVE StripZeros(_)
StripZeros(str) == IF Len(str) > 1 /\ Head(str) = "0" THEN StripZeros(Tail(str)) ELSE str

\* the order of two digit strings as numbers of any size
DecimalCmp(x, y) ==
    LET u == StripZeros(x)
        v == StripZeros(y)
    IN  IF u = v THEN "Equal"
        ELSE IF Len(u) # Len(v) THEN (IF Len(u) < Len(v) THEN "Less" ELSE "Greater")
        ELSE LET k == CHOOSE n \in 1..Len(u) :
                          Char(u, n) # Char(v, n) /\ SubSeq(u, 1, n - 1) = SubSeq(v, 1, n - 1)
             IN  IF CodeOf[Char(u, k)] < CodeOf[Char(v, k)] THEN "Less" ELSE "Greater"

\* the longest digit run whose value is sure to be below 2^64
MaxExactDigits == 19

(* C13: natural_cmp compares digit runs by numeric value and all other      *)
(* characters without regard to letter case: two names that differ only in  *)
(* letter case are Equal, two names with the same letters before a final    *)
(* digit run compare as their numbers do, and file2, file10, file1 sort to  *)
(* file1, file2, file10.                                                    *)
C13_NaturalOrder ==
    Compared
        => /\ ToLower(params.a) = ToLower(params.b) => result.ab = "Equal"
           /\ (/\ ToLower(Stem(params.a)) = ToLower(Stem(params.b))
               /\ ~HasDigit(Stem(params.a))
               /\ TrailingRun(params.a) # "" /\ TrailingRun(params.b) # ""
               /\ Len(TrailingRun(params.a)) <= MaxExactDigits
               /\ Len(TrailingRun(params.b)) <= MaxExactDigits)
                 => result.ab = DecimalCmp(TrailingRun(params.a), TrailingRun(params.b))
           /\ (pc = "sorted" /\ {params.a, params.b, params.c} = {"file1", "file2", "file10"})
                 => files = << [path |-> <<"d", "file1">>, name |-> "file1"],
                               [path |-> <<"d", "file2">>, name |-> "file2"],
                               [path |-> <<"d", "file10">>, name |-> "file10"] >>

(* C14: when one name is a strict prefix of another, natural_cmp puts the   *)
(* shorter strictly first: the result is Less, also when the extra          *)
(* characters are digits that extend a digit run.                           *)
C14_StrictPrefixIsLess ==
    (Compared /\ Len(params.a) < Len(params.b)
        /\ SubSeq(params.b, 1, Len(params.a)) = params.a)
        => result.ab = "Less"

\* Ordering::reverse
Reverse(o) == IF o = "Less" THEN "Greater" ELSE IF o = "Greater" THEN "Less" ELSE o

(* C20: natural_cmp is a consistent total preorder: natural_cmp(a, b) is    *)
(* the reverse of natural_cmp(b, a), natural_cmp(a, a) is Equal, and        *)
(* a <= b with b <= c gives a <= c, also with digit runs that saturate.     *)
C20_TotalPreorder ==
    Compared
        => /\ result.ab = Reverse(result.ba)
           /\ result.aa = "Equal"
           /\ (result.ab # "Greater" /\ result.bc # "Greater") => result.ac # "Greater"
           /\ (result.ab = "Equal" /\ result.bc = "Equal") => result.ac = "Equal"

\* C20's case: three distinct names in a chain through mixed characters and
\* saturated digit runs
C20_Witness ==
    /\ Compared
    /\ params.a = "a-1" /\ params.b = "18446744073709551615"
    /\ params.c = "184467440737095516150"
    /\ result.ab = "Greater" /\ result.ba = "Less"
    /\ result.bc = "Equal" /\ result.ac = "Greater"

-----------------------------------------------------------------------------
(* Properties of scan_directory *)

(* C15: for an existing directory scan_directory returns one record for     *)
(* each direct child that is not a directory, none for a subdirectory or a  *)
(* nested file, each name the last component of its path, the records in    *)
(* natural_cmp order of the names; the filesystem is left as it was.        *)
C15_ScanListsDirectFilesSorted ==
    (pc = "returned" /\ params.op = "scan_directory" /\ params.path \in Dirs)
        => /\ fs = fs0 /\ rename_log = <<>>
           /\ result.ok
                => /\ \A p \in DOMAIN fs0 :
                         (Len(p) = Len(params.path) + 1
                             /\ SubSeq(p, 1, Len(params.path)) = params.path)
                         <=> Cardinality({ k \in 1..Len(files) : files[k].path = p }) = 1
                   /\ Len(files) = Cardinality({ files[k].path : k \in 1..Len(files) })
                   /\ \A k \in 1..Len(files) :
                         /\ files[k].path \in DOMAIN fs0
                         /\ files[k].path \notin Dirs
                         /\ Len(files[k].path) = Len(params.path) + 1
                         /\ files[k].name = files[k].path[Len(files[k].path)]
                   /\ \A k \in 1..(Len(files) - 1) :
                         natural_cmp(files[k].name, files[k + 1].name) # "Greater"
                   /\ result.count = Len(files)

\* C15's case: a directory with numbered files, a subdirectory and a file
\* nested in it
C15_Witness ==
    /\ pc = "returned" /\ params.op = "scan_directory" /\ result.ok
    /\ params.path = <<"d">>
    /\ <<"d", "s", "x">> \in DOMAIN fs
    /\ Len(files) = 4
    /\ files[1].name = "A"
    /\ files[2].name = "file1" /\ files[3].name = "file2" /\ files[4].name = "file10"

-----------------------------------------------------------------------------
(* The controller: FileRenamePlus::new, update and generate_preview         *)
(*                                                                         *)
(* files, previews and fs are the controller's file list, its preview      *)
(* list and the disk.  params holds the input fields, ui the selection and *)
(* the debounce flag (pending_preview and last_input_time are set and      *)
(* cleared together).  tasks holds the scan and rename Tasks that were     *)
(* started and have not reported yet; a task does its filesystem work at   *)
(* the step that delivers its message.  The status line and the theme are  *)
(* display only and are left out, as are the settings-file writes.         *)

\* theme.rs line 30: the most files the list holds (10000 in the program),
\* scaled down so that the folders of the model can fill the list
MAX_FILES == 3

\* the most Tasks in flight at once
MaxTasks == 2

\* the most messages of one run
MaxMessages == 7

\* Option<usize>: None, Some(i)
None == <<>>
Some(i) == <<i>>

\* str::parse::<u32>().unwrap_or(default) on the digits the fields hold
parse_or(str, default) ==
    IF str # "" /\ \A k \in 1..Len(str) : is_ascii_digit(Char(str, k))
    THEN ParseU32(str, <<0, 0>>)
    ELSE default

\* app/mod.rs lines 359-413
generate_preview(fl, P) ==
    IF fl = <<>> THEN <<>>
    ELSE IF P.mode = "FindReplace"
    THEN IF P.find_pattern = "" THEN <<>>
         ELSE LET r == apply_find_replace(fl,
                          [pattern |-> P.find_pattern,
                           replacement |-> P.replace_with,
                           use_regex |-> P.regex_mode,
                           case_sensitive |-> P.case_sensitive])
              IN  IF r.result.ok THEN r.previews ELSE <<>>
    ELSE LET r == apply_iteration_numbering(fl,
                     [template |-> P.template,
                      start_number |-> parse_or(P.start_number, <<0, 1>>),
                      padding |-> parse_or(P.padding, <<0, 3>>)[2]])
         IN  IF r.result.ok THEN r.previews ELSE <<>>

\* file_ops/mod.rs lines 132-146 run to the end: the phase-1 loop
RECURSIVE Phase1Run(_, _, _, _)
Phase1Run(ps, k, f, temps) ==
    IF k > Len(ps) THEN [ok |-> TRUE, fs |-> f, temp_renames |-> temps]
    ELSE IF IsNoOp(ps[k]) THEN Phase1Run(ps, k + 1, f, temps)
    ELSE IF ~CanRename(f, ps[k].original_path, TempPath(ps[k]))
    THEN [ok |-> FALSE, fs |-> f, temp_renames |-> temps]
    ELSE Phase1Run(ps, k + 1,
                   RenameFile(f, ps[k].original_path, TempPath(ps[k])),
                   Append(temps, <<TempPath(ps[k]), TargetPath(ps[k])>>))

\* file_ops/mod.rs lines 149-154 run to the end: the phase-2 loop
RECURSIVE Phase2Run(_, _, _)
Phase2Run(temps, k, f) ==
    IF k > Len(temps) THEN [result |-> Ok(Len(temps)), fs |-> f]
    ELSE IF ~CanRename(f, temps[k][1], temps[k][2])
    THEN [result |-> Err("FailedToFinalize"), fs |-> f]
    ELSE Phase2Run(temps, k + 1, RenameFile(f, temps[k][1], temps[k][2]))

\* file_ops/mod.rs lines 105-157 as one call: the result and the disk it
\* leaves; a rename call fails when the disk makes it fail
validate_and_rename(ps, f) ==
    IF ps = <<>> THEN [result |-> Ok(0), fs |-> f]
    ELSE IF Validate(ps, f) # "ok"
    THEN [result |-> Err(Validate(ps, f)), fs |-> f]
    ELSE LET one == Phase1Run(ps, 1, f, <<>>)
         IN  IF ~one.ok THEN [result |-> Err("FailedToRename"), fs |-> one.fs]
             ELSE Phase2Run(one.temp_renames, 1, one.fs)

\* a merge that appends the entries without looking for their paths in the
\* list
MergeEntries_NoDedup(fl, entries) ==
    LET all == fl \o entries
    IN  IF Len(fl) >= MAX_FILES THEN fl
        ELSE SubSeq(all, 1, IF Len(all) < MAX_FILES THEN Len(all) ELSE MAX_FILES)

\* app/mod.rs lines 213-222: the entries not listed yet are appended, up to
\* MAX_FILES
RECURSIVE MergeEntries(_, _)
MergeEntries(fl, entries) ==
    IF entries = <<>> \/ Len(fl) >= MAX_FILES THEN fl
    ELSE IF \E k \in 1..Len(fl) : fl[k].path = Head(entries).path
    THEN MergeEntries(fl, Tail(entries))
    ELSE MergeEntries(Append(fl, Head(entries)), Tail(entries))

\* Vec::swap of the 1-based positions i and j
Swap(fl, i, j) ==
    [ k \in 1..Len(fl) |-> IF k = i THEN fl[j] ELSE IF k = j THEN fl[i] ELSE fl[k] ]

\* Vec::remove of the 1-based position i
Remove(fl, i) == SubSeq(fl, 1, i - 1) \o SubSeq(fl, i + 1, Len(fl))

\* one more message is handled; the variables of the single-call models are
\* left alone
AppFrame ==
    /\ handled < MaxMessages
    /\ handled' = handled + 1
    /\ UNCHANGED <<fs0, pc, idx, temp_renames, renamed_count, result, rename_log>>

\* the values the input fields take
AppFolders == { <<"d">>, <<"e">> }
AppPatterns == { "", "a" }
AppReplacements == { "", "c" }
AppTemplates == { "{n}", "x{n}" }
AppStartNumbers == { "1", "2" }
AppPaddings == { "1", "" }

\* lines 182-186
ModeChanged ==
    \E mode \in { "FindReplace", "Iteration" } :
        /\ params' = [params EXCEPT !.mode = mode]
        /\ previews' = generate_preview(files, params')
        /\ UNCHANGED <<fs, files, ui, tasks>>
        /\ AppFrame

\* lines 198-210: FolderSelected(Some(path)) starts a scan
FolderSelected ==
    \E path \in AppFolders :
        /\ Len(tasks) < MaxTasks
        /\ tasks' = Append(tasks, [kind |-> "scan", path |-> path,
                                   previews |-> <<>>])
        /\ UNCHANGED <<fs, files, previews, params, ui>>
        /\ AppFrame

\* file_ops/mod.rs lines 11-53 and app/mod.rs lines 211-226: a scan reports
\* its entries, they are merged and the previews regenerated
ScanCompletedOk ==
    \E t \in 1..Len(tasks) :
        /\ tasks[t].kind = "scan"
        /\ LET children == Children(fs, tasks[t].path)
               n == Cardinality(children)
           IN  \E entries \in [1..n -> children] :
                  /\ Injective(entries)
                  /\ files' = MergeEntries(files, sort_by(CollectFiles(entries)))
        /\ previews' = generate_preview(files', params)
        /\ tasks' = Remove(tasks, t)
        /\ UNCHANGED <<fs, params, ui>>
        /\ AppFrame

\* app/mod.rs lines 227-230: a scan reports an error
ScanCompletedErr ==
    \E t \in 1..Len(tasks) :
        /\ tasks[t].kind = "scan"
        /\ tasks' = Remove(tasks, t)
        /\ UNCHANGED <<fs, files, previews, params, ui>>
        /\ AppFrame

\* lines 234-237: the view sends the index of a listed file
FileSelected ==
    \E index \in 0..(Len(files) - 1) :
        /\ ui' = [ui EXCEPT !.selected_index = Some(index)]
        /\ UNCHANGED <<fs, files, previews, params, tasks>>
        /\ AppFrame

\* a MoveUp that swaps the files and leaves the selection where it was
MoveUp_SelectionStays ==
    /\ ui.selected_index # None
    /\ LET i == ui.selected_index[1]
       IN  /\ i > 0
           /\ files' = Swap(files, i + 1, i)
    /\ previews' = generate_preview(files', params)
    /\ UNCHANGED <<fs, params, ui, tasks>>
    /\ AppFrame

\* lines 238-247
MoveUp ==
    /\ ui.selected_index # None
    /\ LET i == ui.selected_index[1]
       IN  /\ i > 0
           /\ files' = Swap(files, i + 1, i)
           /\ ui' = [ui EXCEPT !.selected_index = Some(i - 1)]
    /\ previews' = generate_preview(files', params)
    /\ UNCHANGED <<fs, params, tasks>>
    /\ AppFrame

\* lines 248-257
MoveDown ==
    /\ ui.selected_index # None
    /\ LET i == ui.selected_index[1]
       IN  /\ Len(files) > 0 /\ i < Len(files) - 1
           /\ files' = Swap(files, i + 1, i + 2)
           /\ ui' = [ui EXCEPT !.selected_index = Some(i + 1)]
    /\ previews' = generate_preview(files', params)
    /\ UNCHANGED <<fs, params, tasks>>
    /\ AppFrame

\* lines 258-273
RemoveFile ==
    /\ ui.selected_index # None
    /\ LET i == ui.selected_index[1]
       IN  /\ i < Len(files)
           /\ files' = Remove(files, i + 1)
           /\ ui' = [ui EXCEPT !.selected_index =
                        IF files' = <<>> THEN None
                        ELSE IF i >= Len(files') THEN Some(Len(files') - 1)
                        ELSE Some(i)]
    /\ previews' = generate_preview(files', params)
    /\ UNCHANGED <<fs, params, tasks>>
    /\ AppFrame

\* lines 274-281
ClearFiles ==
    /\ files' = <<>>
    /\ ui' = [ui EXCEPT !.selected_index = None]
    /\ previews' = <<>>
    /\ UNCHANGED <<fs, params, tasks>>
    /\ AppFrame

\* lines 118-121: schedule_preview
schedule_preview == ui' = [ui EXCEPT !.pending_preview = TRUE]

\* lines 282-286
FindPatternChanged ==
    \E pattern \in AppPatterns :
        /\ params' = [params EXCEPT !.find_pattern = pattern]
        /\ schedule_preview
        /\ UNCHANGED <<fs, files, previews, tasks>>
        /\ AppFrame

\* lines 287-291
ReplaceWithChanged ==
    \E replace \in AppReplacements :
        /\ params' = [params EXCEPT !.replace_with = replace]
        /\ schedule_preview
        /\ UNCHANGED <<fs, files, previews, tasks>>
        /\ AppFrame

\* lines 292-296
RegexModeToggled ==
    \E enabled \in BOOLEAN :
        /\ params' = [params EXCEPT !.regex_mode = enabled]
        /\ previews' = generate_preview(files, params')
        /\ UNCHANGED <<fs, files, ui, tasks>>
        /\ AppFrame

\* lines 297-301
CaseSensitiveToggled ==
    \E enabled \in BOOLEAN :
        /\ params' = [params EXCEPT !.case_sensitive = enabled]
        /\ previews' = generate_preview(files, params')
        /\ UNCHANGED <<fs, files, ui, tasks>>
        /\ AppFrame

\* lines 302-306
TemplateChanged ==
    \E template \in AppTemplates :
        /\ params' = [params EXCEPT !.template = template]
        /\ schedule_preview
        /\ UNCHANGED <<fs, files, previews, tasks>>
        /\ AppFrame

\* lines 307-311
StartNumberChanged ==
    \E num \in AppStartNumbers :
        /\ params' = [params EXCEPT !.start_number = num]
        /\ schedule_preview
        /\ UNCHANGED <<fs, files, previews, tasks>>
        /\ AppFrame

\* lines 312-316
PaddingChanged ==
    \E pad \in AppPaddings :
        /\ params' = [params EXCEPT !.padding = pad]
        /\ schedule_preview
        /\ UNCHANGED <<fs, files, previews, tasks>>
        /\ AppFrame

\* lines 168-177, sent every 50 ms while pending_preview (lines 142-146):
\* once DEBOUNCE_MS have passed since the last input the previews are
\* regenerated; before that the tick changes nothing
DebounceTick ==
    /\ ui.pending_preview
    /\ \E elapsed \in BOOLEAN :
          IF elapsed
          THEN /\ ui' = [ui EXCEPT !.pending_preview = FALSE]
               /\ previews' = generate_preview(files, params)
          ELSE UNCHANGED <<ui, previews>>
    /\ UNCHANGED <<fs, files, params, tasks>>
    /\ AppFrame

\* lines 317-338: with previews to apply and every file modifiable, a
\* rename task is started over a clone of the previews
ExecuteRename ==
    /\ previews # <<>>
    /\ Len(tasks) < MaxTasks
    /\ tasks' = Append(tasks, [kind |-> "rename", path |-> <<>>,
                               previews |-> previews])
    /\ UNCHANGED <<fs, files, previews, params, ui>>
    /\ AppFrame

\* file_ops/mod.rs lines 105-157 and app/mod.rs lines 339-354: a rename
\* task reports; on success the lists and the selection are cleared
RenameCompleted ==
    \E t \in 1..Len(tasks) :
        /\ tasks[t].kind = "rename"
        /\ LET r == validate_and_rename(tasks[t].previews, fs)
           IN  /\ fs' = r.fs
               /\ IF r.result.ok
                  THEN /\ files' = <<>>
                       /\ previews' = <<>>
                       /\ ui' = [ui EXCEPT !.selected_index = None]
                  ELSE UNCHANGED <<files, previews, ui>>
        /\ tasks' = Remove(tasks, t)
        /\ UNCHANGED params
        /\ AppFrame

-----------------------------------------------------------------------------
(* The folders and settings the controller is run on *)

AppUniverse == { <<"d", "a">>, <<"d", "b">>, <<"e", "a">>, <<"e", "b">> }

\* app/mod.rs lines 66-87 and settings.rs lines 16-27: the controller after
\* new(), with the default settings
InitApp ==
    /\ fs = IdentityFs(AppUniverse)
    /\ fs0 = fs
    /\ files = <<>>
    /\ previews = <<>>
    /\ params = [mode |-> "FindReplace", find_pattern |-> "",
                 replace_with |-> "", regex_mode |-> FALSE,
                 case_sensitive |-> TRUE, template |-> "{n}",
                 start_number |-> "1", padding |-> "3"]
    /\ ui = NoUi
    /\ tasks = <<>>
    /\ handled = 0
    /\ pc = "app"
    /\ idx = 0
    /\ temp_renames = <<>>
    /\ renamed_count = 0
    /\ result = NoResult
    /\ rename_log = <<>>

NextApp ==
    \/ ModeChanged
    \/ FolderSelected
    \/ ScanCompletedOk
    \/ ScanCompletedErr
    \/ FileSelected
    \/ MoveUp
    \/ MoveDown
    \/ RemoveFile
    \/ ClearFiles
    \/ FindPatternChanged
    \/ ReplaceWithChanged
    \/ RegexModeToggled
    \/ CaseSensitiveToggled
    \/ TemplateChanged
    \/ StartNumberChanged
    \/ PaddingChanged
    \/ DebounceTick
    \/ ExecuteRename
    \/ RenameCompleted

SpecApp == InitApp /\ [][NextApp]_vars

-----------------------------------------------------------------------------
(* Properties of the controller *)

\* the step starts a rename task
StartsRename ==
    /\ Len(tasks') = Len(tasks) + 1
    /\ tasks'[Len(tasks')].kind = "rename"

(* C16: whenever ExecuteRename starts a rename task, the previews handed to *)
(* validate_and_rename are the ones the current files and the current       *)
(* parameters produce, never previews computed from an earlier parameter    *)
(* value.                                                                   *)
C16_PreviewsAreCurrent ==
    [][ StartsRename
          => tasks'[Len(tasks')].previews = generate_preview(files, params) ]_vars

(* C17: no rename task is in flight together with another rename task over  *)
(* the same previews or with a scan: between the ExecuteRename that starts  *)
(* a rename task and the RenameCompleted that reports it no second such     *)
(* task and no scan is started.                                             *)
C17_NoConcurrentCommit ==
    \A i \in 1..Len(tasks) : \A j \in 1..Len(tasks) :
        (i # j /\ tasks[i].kind = "rename")
            => /\ tasks[j].kind # "scan"
               /\ ~(tasks[j].kind = "rename"
                    /\ tasks[j].previews = tasks[i].previews)

(* C21: after any sequence of controller messages the file list holds no    *)
(* two entries with the same path and never more than MAX_FILES entries.    *)
C21_DistinctPathsWithinLimit ==
    /\ \A i \in 1..Len(files) : \A j \in 1..Len(files) :
          i # j => files[i].path # files[j].path
    /\ Len(files) <= MAX_FILES

\* two scans have reported and nothing else has happened: the folders hold
\* more files than the list may, and the list is full with files of both
C21_Witness ==
    /\ handled = 4
    /\ tasks = <<>>
    /\ Len(files) = MAX_FILES
    /\ Cardinality(AppUniverse) > MAX_FILES
    /\ \E i \in 1..Len(files) : ParentOr(files[i].path) = <<"d">>
    /\ \E i \in 1..Len(files) : ParentOr(files[i].path) = <<"e">>

\* selected_index is None or the 0-based position of a listed file
SelectionValid ==
    \/ ui.selected_index = None
    \/ ui.selected_index[1] \in 0..(Len(files) - 1)

\* the step keeps the files, and the selected file is the one that was
\* selected, `by` positions further down the list
MovesSelected(by) ==
    /\ Len(files') = Len(files)
    /\ Range(files') = Range(files)
    /\ ui'.selected_index # None
    /\ ui'.selected_index[1] = ui.selected_index[1] + by
    /\ files'[ui'.selected_index[1] + 1] = files[ui.selected_index[1] + 1]

\* the step takes the selected file, and no other, out of the list
RemovesSelected ==
    LET i == ui.selected_index[1] + 1
    IN  /\ Len(files') = Len(files) - 1
        /\ \A k \in 1..Len(files') :
              files'[k] = IF k < i THEN files[k] ELSE files[k + 1]

(* C22: with FileSelected carrying only the index of a listed file,         *)
(* selected_index is always None or a valid index into the file list;       *)
(* MoveUp and MoveDown keep the same files and keep the selection on the    *)
(* file that was moved; RemoveFile removes exactly the selected file and    *)
(* leaves the selection on a valid index, or None when the list became      *)
(* empty.                                                                   *)
C22_SelectionFollowsFiles ==
    [][ /\ SelectionValid
        /\ SelectionValid'
        /\ MoveUp => MovesSelected(-1)
        /\ MoveDown => MovesSelected(1)
        /\ RemoveFile
             => /\ RemovesSelected
                /\ (files' = <<>>) <=> (ui'.selected_index = None) ]_vars

\* the second file of folder d was selected and moved up
C22_Witness ==
    /\ handled = 4
    /\ Len(files) = 2
    /\ files[1].path = <<"d", "b">>
    /\ files[2].path = <<"d", "a">>
    /\ ui.selected_index = Some(0)

====
